---------------------------- MODULE Spec2Model ----------------------------
(***************************************************************************)
(* Model of src/main.rs: the cache-placement optimizer (Hash Code          *)
(* "streaming videos").  The state is the parsed Input, the State struct   *)
(* (cached_videos, cache_usage), the ranked candidate list of main and a   *)
(* program counter.  Both placement loops are modelled: `greedy` /         *)
(* `greedy_next` (the basic strategy) and the loop of `main` (the advanced *)
(* strategy).  The parallel scan of each loop iteration is modelled by its *)
(* readers' progress (scanned) and what they saw (observed).               *)
(*                                                                         *)
(* u32 / i32 arithmetic is modelled at a scaled word width: a u32 is a     *)
(* number in 0 .. 2^Width - 1 and `x as i32` reinterprets it in            *)
(* -2^(Width-1) .. 2^(Width-1) - 1.  An arithmetic overflow panics when    *)
(* the build checks overflow (debug profile) and wraps when it does not    *)
(* (release profile); the variable overflow_checks is the profile.         *)
(* u64, usize and f64 values stay far below their limits at these bounds   *)
(* and are unbounded integers here (the f64 quotient of score is the exact *)
(* rational quotient).                                                     *)
(***************************************************************************)
EXTENDS Integers, Sequences, FiniteSets, TLC

(***************************************************************************)
(* Bounds of the model.                                                    *)
(***************************************************************************)
Width == 20
NumVideos == 2
MaxLines == 2

(***************************************************************************)
(* Scaled machine arithmetic.                                              *)
(***************************************************************************)
RECURSIVE Pow2(_)
Pow2(n) == IF n = 0 THEN 1 ELSE 2 * Pow2(n - 1)

Modulus == Pow2(Width)
Half == Pow2(Width - 1)
MaxU == Modulus - 1

\* `x as i32` for a u32 x: the same bits read as a signed number.
AsI32(x) == IF x >= Half THEN x - Modulus ELSE x

\* The wrapped result of a u32 operation whose exact result is x.
WrapU(x) == x % Modulus

\* The wrapped result of an i32 operation whose exact result is x.
WrapI(x) == ((x + Half) % Modulus) - Half

OverflowsU(x) == x < 0 \/ x > MaxU
OverflowsI(x) == x < 0 - Half \/ x > Half - 1

VideoIds == 0 .. (NumVideos - 1)
CacheIds == {0, 1}
EndpointIds == {0, 1}
NumCaches == Cardinality(CacheIds)

(***************************************************************************)
(* Sequence helpers.                                                       *)
(***************************************************************************)
\* Every enumeration of the finite set S without repetition: the orders in
\* which iterating a HashMap with these entries can yield them.
RECURSIVE Orders(_)
Orders(S) ==
    IF S = {} THEN {<<>>}
    ELSE UNION {{<<x>> \o s : s \in Orders(S \ {x})} : x \in S}

RECURSIVE SumSeq(_)
SumSeq(s) == IF s = <<>> THEN 0 ELSE Head(s) + SumSeq(Tail(s))

RECURSIVE SumOver(_, _)
SumOver(S, f) ==
    IF S = {} THEN 0
    ELSE LET x == CHOOSE y \in S : TRUE IN f[x] + SumOver(S \ {x}, f)

Min(S) == CHOOSE x \in S : \A y \in S : x <= y

VARIABLES
    overflow_checks,        \* build profile: TRUE panics on overflow, FALSE wraps
    strategy,               \* "greedy" (basic) or "main" (advanced)
    videos,                 \* Input.videos: video id -> size
    endpoints,              \* Input.endpoints: id -> [latency, cache_connections]
    cache_size,             \* Input.cache_size
    raw,                    \* the request lines of the input file, in file order
    lines,                  \* the request lines not yet read
    request_map,            \* parse_input's HashMap: (video, endpoint) -> amount
    request_descriptions,   \* Input.request_descriptions: the collected Vec
    cached_videos,          \* State.cached_videos: cache id -> set of video ids
    cache_usage,            \* State.cache_usage: cache id -> u32
    cache_latency_scores,   \* main's ranked Vec of <<cache_id, video_id, score>>
    insertions,             \* number of calls of insert_video_in_cache so far
    scanned,                \* items of the running parallel scan already evaluated
    observed,               \* the Allocation States the running scan's readers saw
    result,                 \* what score() returned: <<sum_latency, normalized>>
    pc

vars == <<overflow_checks, strategy, videos, endpoints, cache_size, raw, lines,
          request_map, request_descriptions, cached_videos, cache_usage,
          cache_latency_scores, insertions, scanned, observed, result, pc>>

input_vars == <<overflow_checks, strategy, videos, endpoints, cache_size, raw>>

(***************************************************************************)
(* parse_input: the stable sort of an endpoint's connections by latency.   *)
(***************************************************************************)
RECURSIVE InsertByLatency(_, _)
InsertByLatency(s, x) ==
    IF s = <<>> THEN <<x>>
    ELSE IF x[2] < Head(s)[2] THEN <<x>> \o s
    ELSE <<Head(s)>> \o InsertByLatency(Tail(s), x)

\* cache_connections.sort_by(|a, b| a.1.cmp(&b.1)): ascending, equal
\* latencies keep their input order.
RECURSIVE SortConnections(_)
SortConnections(s) ==
    IF s = <<>> THEN <<>>
    ELSE InsertByLatency(SortConnections(SubSeq(s, 1, Len(s) - 1)), s[Len(s)])

(***************************************************************************)
(* parse_input: aggregation of the request lines.  A line is               *)
(* <<video_id, endpoint_id, amount>>.                                      *)
(***************************************************************************)
LineKey(line) == <<line[1], line[2]>>

\* The entry's amount before the line is added: or_insert(.. amount: 0 ..).
EntryAmount(map, key) == IF key \in DOMAIN map THEN map[key] ELSE 0

\* The exact value of `(*request_description).amount += amount`.
AddedAmount(map, line) == EntryAmount(map, LineKey(line)) + line[3]

PutAmount(map, key, amount) ==
    [k \in (DOMAIN map) \cup {key} |-> IF k = key THEN amount ELSE map[k]]

\* request_descriptions.iter().map(..clone()).collect(): the entries of the
\* HashMap in one of its iteration orders.
CollectedVecs(map) ==
    {[i \in DOMAIN order |->
        [amount |-> map[order[i]], video_id |-> order[i][1], endpoint_id |-> order[i][2]]]
     : order \in Orders(DOMAIN map)}

(***************************************************************************)
(* State                                                                   *)
(***************************************************************************)
NewCachedVideos == [c \in CacheIds |-> {}]
NewCacheUsage == [c \in CacheIds |-> 0]

\* A test that never reports the video as cached.
NeverCaching(endpoint_id, video_id) == FALSE

\* State::is_caching
is_caching(endpoint_id, video_id) ==
    \E i \in DOMAIN endpoints[endpoint_id].cache_connections :
        video_id \in cached_videos[endpoints[endpoint_id].cache_connections[i][1]]

\* An insert that overwrites the cache's set.
OverwriteStored(stored, video_id) == {video_id}

\* self.cached_videos[cache_id].insert(video_id)
InsertStored(stored, video_id) == stored \cup {video_id}

\* The exact value of `self.cache_usage[cache_id] += size`.
AddedUsage(cache_id, video_id) == cache_usage[cache_id] + videos[video_id]

(***************************************************************************)
(* The admissibility test of both loops:                                   *)
(*   cache_size as i32 - cache_usage(cache_id) as i32 >= size as i32       *)
(***************************************************************************)
Remaining(cache_id) == AsI32(cache_size) - AsI32(cache_usage[cache_id])

RemainingOverflows(cache_id) == OverflowsI(Remaining(cache_id))

HasRoom(cache_id, video_id) == WrapI(Remaining(cache_id)) >= AsI32(videos[video_id])

(***************************************************************************)
(* The u32 product (endpoint.latency - cache_latency) * amount.            *)
(***************************************************************************)
LatencyDiff(endpoint_id, cache_latency) == endpoints[endpoint_id].latency - cache_latency

SavedExact(endpoint_id, cache_latency, amount) ==
    WrapU(LatencyDiff(endpoint_id, cache_latency)) * amount

SavedOverflows(endpoint_id, cache_latency, amount) ==
    \/ OverflowsU(LatencyDiff(endpoint_id, cache_latency))
    \/ OverflowsU(SavedExact(endpoint_id, cache_latency, amount))

Saved(endpoint_id, cache_latency, amount) ==
    WrapU(SavedExact(endpoint_id, cache_latency, amount))

(***************************************************************************)
(* State::score                                                            *)
(***************************************************************************)
Connections(i) == endpoints[request_descriptions[i].endpoint_id].cache_connections

\* The positions, in the endpoint's sorted connections, of the caches that
\* store the video of request i in the allocation `cached`.
Hits(i, cached) ==
    {j \in DOMAIN Connections(i) :
        request_descriptions[i].video_id \in cached[Connections(i)[j][1]]}

\* The requests for which the loop over the connections sets `latency`.
Served(cached) == {i \in DOMAIN request_descriptions : Hits(i, cached) # {}}

\* `latency = Some(cache_latency); break`: the first hit.
HitLatency(i, cached) == Connections(i)[Min(Hits(i, cached))][2]

EntrySaved(i, cached) ==
    Saved(request_descriptions[i].endpoint_id, HitLatency(i, cached),
          request_descriptions[i].amount)

RECURSIVE SumSaved(_, _)
SumSaved(S, cached) ==
    IF S = {} THEN 0
    ELSE LET i == CHOOSE x \in S : TRUE
         IN EntrySaved(i, cached) + SumSaved(S \ {i}, cached)

sum_latency(cached) == SumSaved(Served(cached), cached)

sum_requests == SumSeq([i \in DOMAIN request_descriptions |-> request_descriptions[i].amount])

ScoreOverflows(cached) ==
    \E i \in Served(cached) :
        SavedOverflows(request_descriptions[i].endpoint_id, HitLatency(i, cached),
                       request_descriptions[i].amount)

\* A cast that saturates NaN like an infinity.
NanAsMaxU == MaxU

\* `NaN as u32`: the cast of the quotient 0.0 / 0.0.
NanAsU32 == 0

\* One more decimal digit of the quotient num / den: <<digit, remainder>>.
Digit(rem, den) == <<(rem * 10) \div den, (rem * 10) % den>>

\* ((sl as f64 / sr as f64) * 1000.0).floor() as u32: the cast saturates.
Normalized(sl, sr) ==
    IF sr = 0 THEN (IF sl = 0 THEN NanAsU32 ELSE MaxU)
    ELSE IF sl \div sr > MaxU \div 1000 THEN MaxU
    ELSE LET d1 == Digit(sl % sr, sr)
             d2 == Digit(d1[2], sr)
             d3 == Digit(d2[2], sr)
             q == (sl \div sr) * 1000 + d1[1] * 100 + d2[1] * 10 + d3[1]
         IN IF q > MaxU THEN MaxU ELSE q

score(cached) == <<sum_latency(cached), Normalized(sum_latency(cached), sum_requests)>>

(***************************************************************************)
(* greedy_next                                                             *)
(***************************************************************************)
\* The positions of the connections whose cache passes the test of `find`.
Rooms(i) ==
    {j \in DOMAIN Connections(i) :
        HasRoom(Connections(i)[j][1], request_descriptions[i].video_id)}

\* The connections `find` evaluates: up to the first that passes.
Scanned(i) ==
    {j \in DOMAIN Connections(i) : Rooms(i) = {} \/ j <= Min(Rooms(i))}

\* The requests the filter_map closure maps to Some(..).
GreedyCandidates ==
    {i \in DOMAIN request_descriptions :
        /\ ~is_caching(request_descriptions[i].endpoint_id, request_descriptions[i].video_id)
        /\ Rooms(i) # {}}

GreedyConnection(i) == Connections(i)[Min(Rooms(i))]

GreedyBenefit(i) ==
    Saved(request_descriptions[i].endpoint_id, GreedyConnection(i)[2],
          request_descriptions[i].amount)

\* An overflow in the closure, for some request.
GreedyOverflows ==
    \E i \in DOMAIN request_descriptions :
        /\ ~is_caching(request_descriptions[i].endpoint_id, request_descriptions[i].video_id)
        /\ \/ \E j \in Scanned(i) : RemainingOverflows(Connections(i)[j][1])
           \/ /\ Rooms(i) # {}
              /\ SavedOverflows(request_descriptions[i].endpoint_id, GreedyConnection(i)[2],
                                request_descriptions[i].amount)

\* What greedy_next can return as Some(..): <<benefit, <<video_id, cache_id>>>>
\* of a candidate of maximal benefit (max_by_key; which of several maxima
\* is left to the parallel reduction).
greedy_next ==
    {<<GreedyBenefit(i), <<request_descriptions[i].video_id, GreedyConnection(i)[1]>>>> :
        i \in {k \in GreedyCandidates :
                 \A m \in GreedyCandidates : GreedyBenefit(m) <= GreedyBenefit(k)}}

(***************************************************************************)
(* main: the per-request scores, their aggregation and the ranking.        *)
(***************************************************************************)
\* The <<request, connection>> pairs the filter_map closure keeps.
Scored ==
    {p \in {<<i, j>> : i \in DOMAIN request_descriptions, j \in 1 .. NumCaches} :
        /\ p[2] \in DOMAIN Connections(p[1])
        /\ ~(videos[request_descriptions[p[1]].video_id] > cache_size)}

\* A key with its components in the order greedy_next uses: (video, cache).
SwappedKey(p) == <<request_descriptions[p[1]].video_id, Connections(p[1])[p[2]][1]>>

\* The key of the scorer's triple: (cache_id, video_id).
ScoredKey(p) == <<Connections(p[1])[p[2]][1], request_descriptions[p[1]].video_id>>

\* ((endpoint.latency - cache_latency) * amount) / size
ScoredValue(p) ==
    Saved(request_descriptions[p[1]].endpoint_id, Connections(p[1])[p[2]][2],
          request_descriptions[p[1]].amount)
      \div videos[request_descriptions[p[1]].video_id]

ScoreKeys == {ScoredKey(p) : p \in Scored}

RECURSIVE SumScored(_)
SumScored(S) ==
    IF S = {} THEN 0
    ELSE LET p == CHOOSE x \in S : TRUE IN ScoredValue(p) + SumScored(S \ {p})

\* The exact value of the sum `*cache_latency_score += score` builds for a key.
TotalExact(key) == SumScored({p \in Scored : ScoredKey(p) = key})

total_benefit(key) == WrapU(TotalExact(key))

ScoringOverflows ==
    \/ \E p \in Scored :
          SavedOverflows(request_descriptions[p[1]].endpoint_id, Connections(p[1])[p[2]][2],
                         request_descriptions[p[1]].amount)
    \/ \E key \in ScoreKeys : OverflowsU(TotalExact(key))

\* The descending arrangements of the keys S: the next key is one of those
\* of greatest total_benefit among the keys left.
RECURSIVE Descending(_)
Descending(S) ==
    IF S = {} THEN {<<>>}
    ELSE UNION {{<<x>> \o s : s \in Descending(S \ {x})} :
                  x \in {y \in S : \A z \in S : total_benefit(z) <= total_benefit(y)}}

\* cache_latency_scores after sort_by(|a, b| b.2.cmp(&a.2)): the entries of
\* the HashMap in one of its iteration orders, stably sorted by descending
\* score; every descending arrangement of the entries arises this way.
RankedLists ==
    {[i \in DOMAIN order |-> <<order[i][1], order[i][2], total_benefit(order[i])>>] :
        order \in Descending(ScoreKeys)}

(***************************************************************************)
(* main: the placement loop's search.                                      *)
(***************************************************************************)
\* The predicate of find_any on entry i of the ranked list.
Admissible(i) ==
    /\ HasRoom(cache_latency_scores[i][1], cache_latency_scores[i][2])
    /\ cache_latency_scores[i][2] \notin cached_videos[cache_latency_scores[i][1]]

PlaceOverflows ==
    \E i \in DOMAIN cache_latency_scores : RemainingOverflows(cache_latency_scores[i][1])

\* What find_any can return as Some(..): any entry that satisfies the
\* predicate (a build that checks overflow panics on evaluating an entry
\* whose subtraction overflows).
find_any ==
    {i \in DOMAIN cache_latency_scores :
        /\ Admissible(i)
        /\ ~(overflow_checks /\ RemainingOverflows(cache_latency_scores[i][1]))}

(***************************************************************************)
(* The inputs.  Sizes are positive and no link latency exceeds its         *)
(* endpoint's datacenter latency.  The input files are drawn from          *)
(* families that each vary one part of the file: the sizes and the         *)
(* capacity; the request lines and their order; the connections and the    *)
(* demand; and the three scenarios of the specification.                   *)
(***************************************************************************)
SizeValues == {60, Half, MaxU}
CapacityValues == {10, 100, Half}
AmountValues == {0, 10, Half}
DemandValues == {10, 2000}

\* An endpoint as parse_input pushes it: the connections in file order, sorted.
Endpoint(latency, connections) ==
    [latency |-> latency, cache_connections |-> SortConnections(connections)]

AllCaches(latency_of) == [j \in 1 .. NumCaches |-> <<j - 1, latency_of[j - 1]>>]

Topologies ==
    { [e \in EndpointIds |-> Endpoint(1000, AllCaches([c \in CacheIds |-> 100 + 400 * c]))],
      [e \in EndpointIds |-> Endpoint(1000, AllCaches([c \in CacheIds |-> 100 + 400 * (NumCaches - 1 - c)]))],
      [e \in EndpointIds |-> Endpoint(1000, <<<<e % NumCaches, 100>>>>)],
      [e \in EndpointIds |->
          IF e = 0 THEN Endpoint(1000, AllCaches([c \in CacheIds |-> 100]))
          ELSE Endpoint(500, <<<<0, 200>>>>)],
      [e \in EndpointIds |->
          IF e = 0 THEN Endpoint(1000, <<>>)
          ELSE Endpoint(1000, AllCaches([c \in CacheIds |-> 1000 - 100 * c]))] }

SingleCacheTopology == [e \in EndpointIds |-> Endpoint(1000, <<<<0, 100>>>>)]

\* One line per video, from endpoint 0, video 0 the most requested.
LinePerVideo == [i \in 1 .. NumVideos |-> <<i - 1, 0, 10 * (NumVideos + 1 - i)>>]

SeqsUpTo(S, n) == UNION {[1 .. k -> S] : k \in 0 .. n}

SetToSeq(S) == CHOOSE s \in Orders(S) : TRUE

\* Every endpoint may request every video lightly, a video of greater id a
\* little more; endpoint 0 may request video 0 heavily.
DemandLines ==
    {<<v, e, Min(DemandValues) + v>> : v \in VideoIds, e \in EndpointIds}
        \cup {<<0, 0, a>> : a \in DemandValues}

SizingInputs ==
    {[videos |-> v, endpoints |-> SingleCacheTopology, cache_size |-> c, raw |-> LinePerVideo] :
        v \in [VideoIds -> SizeValues], c \in CapacityValues}

AggregationInputs ==
    {[videos |-> [v \in VideoIds |-> 60], endpoints |-> SingleCacheTopology, cache_size |-> 1000,
      raw |-> r] :
        r \in SeqsUpTo({<<v, 0, a>> : v \in VideoIds, a \in AmountValues}, MaxLines)}

DemandInputs ==
    {[videos |-> [v \in VideoIds |-> 60], endpoints |-> t, cache_size |-> c,
      raw |-> SetToSeq(r)] :
        t \in Topologies, c \in {100},
        r \in {s \in SUBSET DemandLines : Cardinality(s) <= MaxLines}}

ScenarioInputs ==
    { \* trivial fit
      [videos |-> [v \in VideoIds |-> 50], endpoints |-> SingleCacheTopology,
       cache_size |-> 100, raw |-> <<<<0, 0, 10>>>>],
      \* no caching possible
      [videos |-> [v \in VideoIds |-> 1000], endpoints |-> SingleCacheTopology,
       cache_size |-> 10, raw |-> <<<<0, 0, 5>>>>],
      \* capacity contention
      [videos |-> [v \in VideoIds |-> 60], endpoints |-> SingleCacheTopology,
       cache_size |-> 100, raw |-> <<<<0, 0, 10>>, <<1, 0, 10>>, <<0, 1, 10>>>>] }

Inputs == SizingInputs \cup AggregationInputs \cup DemandInputs \cup ScenarioInputs

Init ==
    /\ overflow_checks \in BOOLEAN
    /\ strategy \in {"greedy", "main"}
    /\ \E inp \in Inputs :
          /\ videos = inp.videos
          /\ endpoints = inp.endpoints
          /\ cache_size = inp.cache_size
          /\ raw = inp.raw
          /\ lines = inp.raw
    /\ request_map = <<>>
    /\ request_descriptions = <<>>
    /\ cached_videos = NewCachedVideos
    /\ cache_usage = NewCacheUsage
    /\ cache_latency_scores = <<>>
    /\ insertions = 0
    /\ scanned = 0
    /\ observed = {}
    /\ result = <<>>
    /\ pc = "parse"

(***************************************************************************)
(* parse_input, lines 138-158: one request line.                           *)
(***************************************************************************)
ParseLine ==
    /\ pc = "parse"
    /\ lines # <<>>
    /\ lines' = Tail(lines)
    /\ IF overflow_checks /\ OverflowsU(AddedAmount(request_map, Head(lines)))
       THEN /\ request_map' = PutAmount(request_map, LineKey(Head(lines)),
                                        EntryAmount(request_map, LineKey(Head(lines))))
            /\ pc' = "panicked"
       ELSE /\ request_map' = PutAmount(request_map, LineKey(Head(lines)),
                                        WrapU(AddedAmount(request_map, Head(lines))))
            /\ pc' = "parse"
    /\ UNCHANGED <<input_vars, request_descriptions, cached_videos, cache_usage,
                   cache_latency_scores, insertions, scanned, observed, result>>

(***************************************************************************)
(* parse_input, lines 160-168, and State::new: the Vec is collected.       *)
(***************************************************************************)
Collect ==
    /\ pc = "parse"
    /\ lines = <<>>
    /\ request_descriptions' \in CollectedVecs(request_map)
    /\ pc' = IF strategy = "greedy" THEN "greedy" ELSE "score"
    /\ UNCHANGED <<input_vars, lines, request_map, cached_videos, cache_usage,
                   cache_latency_scores, insertions, scanned, observed, result>>

(***************************************************************************)
(* The parallel scans: greedy_next's par_iter over request_descriptions    *)
(* and the loop's par_iter over cache_latency_scores.  Each item is        *)
(* evaluated by a reader that borrows the State; the readers differ only   *)
(* in their item, so the scan's progress is the number of items done.      *)
(***************************************************************************)
ScanLength == IF pc = "greedy" THEN Len(request_descriptions) ELSE Len(cache_latency_scores)

\* A reader evaluates the closure on one more item.
ScanItem ==
    /\ pc \in {"greedy", "place"}
    /\ scanned < ScanLength
    /\ scanned' = scanned + 1
    /\ observed' = observed \cup {<<cached_videos, cache_usage>>}
    /\ UNCHANGED <<input_vars, lines, request_map, request_descriptions, cached_videos,
                   cache_usage, cache_latency_scores, insertions, result, pc>>

\* A scan whose readers go on after the value was returned.
ScanGoesOn(n) == n

\* The readers still running when the scan has returned its value: none
\* (the scan borrows the State until it returns).
ScanReturned(n) == 0

\* max_by_key and a find_any that finds nothing consume every item.
ScanComplete == scanned = ScanLength

\* find_any returns an item, or a closure panics: some item was evaluated.
ScanStarted == scanned >= 1

(***************************************************************************)
(* State::insert_video_in_cache, called once the scan has returned,        *)
(* continuing at next_pc.                                                  *)
(***************************************************************************)
insert_video_in_cache(cache_id, video_id, next_pc) ==
    /\ scanned' = ScanReturned(scanned)
    /\ observed' = IF scanned' = 0 THEN {} ELSE observed
    /\ cached_videos' = [cached_videos EXCEPT ![cache_id] = InsertStored(@, video_id)]
    /\ insertions' = insertions + 1
    /\ IF overflow_checks /\ OverflowsU(AddedUsage(cache_id, video_id))
       THEN /\ cache_usage' = cache_usage
            /\ pc' = "panicked"
       ELSE /\ cache_usage' = [cache_usage EXCEPT ![cache_id] = WrapU(AddedUsage(cache_id, video_id))]
            /\ pc' = next_pc

(***************************************************************************)
(* greedy: one iteration of the while-let loop.                            *)
(***************************************************************************)
GreedyInsert ==
    /\ pc = "greedy"
    /\ ScanComplete
    /\ ~(overflow_checks /\ GreedyOverflows)
    /\ \E next \in greedy_next : insert_video_in_cache(next[2][2], next[2][1], "greedy")
    /\ UNCHANGED <<input_vars, lines, request_map, request_descriptions,
                   cache_latency_scores, result>>

GreedyDone ==
    /\ pc = "greedy"
    /\ ScanComplete
    /\ ~(overflow_checks /\ GreedyOverflows)
    /\ greedy_next = {}
    /\ pc' = "evaluate"
    /\ scanned' = ScanReturned(scanned)
    /\ observed' = IF scanned' = 0 THEN {} ELSE observed
    /\ UNCHANGED <<input_vars, lines, request_map, request_descriptions, cached_videos,
                   cache_usage, cache_latency_scores, insertions, result>>

GreedyPanic ==
    /\ pc = "greedy"
    /\ ScanStarted
    /\ overflow_checks /\ GreedyOverflows
    /\ pc' = "panicked"
    /\ scanned' = ScanReturned(scanned)
    /\ observed' = IF scanned' = 0 THEN {} ELSE observed
    /\ UNCHANGED <<input_vars, lines, request_map, request_descriptions, cached_videos,
                   cache_usage, cache_latency_scores, insertions, result>>

(***************************************************************************)
(* main, lines 297-329: the ranked candidate list.                         *)
(***************************************************************************)
ScoreCandidates ==
    /\ pc = "score"
    /\ IF overflow_checks /\ ScoringOverflows
       THEN /\ cache_latency_scores' = <<>>
            /\ pc' = "panicked"
       ELSE /\ cache_latency_scores' \in RankedLists
            /\ pc' = "place"
    /\ UNCHANGED <<input_vars, lines, request_map, request_descriptions, cached_videos,
                   cache_usage, insertions, scanned, observed, result>>

(***************************************************************************)
(* main, lines 331-347: one iteration of the while-let loop.               *)
(***************************************************************************)
PlaceInsert ==
    /\ pc = "place"
    /\ ScanStarted
    /\ \E i \in find_any :
          insert_video_in_cache(cache_latency_scores[i][1], cache_latency_scores[i][2], "place")
    /\ UNCHANGED <<input_vars, lines, request_map, request_descriptions,
                   cache_latency_scores, result>>

\* find_any returned None, or panicked on an overflowing subtraction.
PlaceDone ==
    /\ pc = "place"
    /\ \/ find_any = {} /\ ScanComplete
       \/ overflow_checks /\ PlaceOverflows /\ ScanStarted
    /\ pc' = IF overflow_checks /\ PlaceOverflows THEN "panicked" ELSE "evaluate"
    /\ scanned' = ScanReturned(scanned)
    /\ observed' = IF scanned' = 0 THEN {} ELSE observed
    /\ UNCHANGED <<input_vars, lines, request_map, request_descriptions, cached_videos,
                   cache_usage, cache_latency_scores, insertions, result>>

(***************************************************************************)
(* main, lines 349-354: state.score() is reported.                         *)
(***************************************************************************)
Evaluate ==
    /\ pc = "evaluate"
    /\ IF overflow_checks /\ ScoreOverflows(cached_videos)
       THEN /\ result' = <<>>
            /\ pc' = "panicked"
       ELSE /\ result' = score(cached_videos)
            /\ pc' = "done"
    /\ UNCHANGED <<input_vars, lines, request_map, request_descriptions, cached_videos,
                   cache_usage, cache_latency_scores, insertions, scanned, observed>>

Next ==
    \/ ParseLine
    \/ Collect
    \/ ScanItem
    \/ GreedyInsert
    \/ GreedyDone
    \/ GreedyPanic
    \/ ScoreCandidates
    \/ PlaceInsert
    \/ PlaceDone
    \/ Evaluate

Spec == Init /\ [][Next]_vars

(***************************************************************************)
(* Properties.                                                             *)
(***************************************************************************)
Running == pc \in {"greedy", "score", "place", "evaluate", "done"}

StoredSize(c) == SumOver(cached_videos[c], videos)

StoredPairs == SumOver(CacheIds, [c \in CacheIds |-> Cardinality(cached_videos[c])])

MinSize == Min({videos[v] : v \in VideoIds})

\* C1: in every reachable state of either strategy, after each insertion
\* and at termination, usage[c] <= capacity for every cache c.
CapacityInvariant == \A c \in CacheIds : cache_usage[c] <= cache_size

\* C2: in every reachable state the usage counter of every cache is the
\* sum of the sizes of the videos stored in it, and no insertion was of a
\* pair already stored (every insertion added a pair).
UsageIsStoredSize ==
    pc # "panicked" =>
        /\ \A c \in CacheIds : cache_usage[c] = StoredSize(c)
        /\ insertions = StoredPairs

\* C3 (the bound): the number of insertions performed is at most
\* (number of caches * capacity) / min(video size).
InsertionBound == insertions * MinSize <= NumCaches * cache_size

\* C10: no video whose size exceeds the cache capacity is ever stored in
\* any cache, by either strategy.
NoOversizedVideoStored ==
    \A c \in CacheIds : \A v \in cached_videos[c] : videos[v] <= cache_size

\* The total_benefit the ranked list gives the pair (cache c, video v).
RankedBenefit(c, v) ==
    LET i == CHOOSE k \in DOMAIN cache_latency_scores :
                 cache_latency_scores[k][1] = c /\ cache_latency_scores[k][2] = v
    IN cache_latency_scores[i][3]

\* An entry of the ranked list whose video is not stored in its cache and
\* whose cache has remaining capacity at least the video's size.
AdmissiblePair(i) ==
    /\ cache_latency_scores[i][2] \notin cached_videos[cache_latency_scores[i][1]]
    /\ cache_size - cache_usage[cache_latency_scores[i][1]] >= videos[cache_latency_scores[i][2]]

\* The capacity-contention scenario: both videos of size 60, one reachable
\* cache of capacity 100, video 0 requested by both endpoints, video 1 by one.
ContentionScenario ==
    /\ raw = <<<<0, 0, 10>>, <<1, 0, 10>>, <<0, 1, 10>>>>
    /\ cache_size = 100
    /\ \A v \in VideoIds : videos[v] = 60

\* C4: in the advanced strategy every insertion is of the best-ranked
\* admissible candidate: when (cache, video) is inserted, no admissible pair
\* of the ranked list has a strictly greater total_benefit; and the run of
\* the capacity-contention scenario ends with only video 0 stored.
BestRankedInserted ==
    [][/\ pc = "place" =>
            \A c \in CacheIds : \A v \in cached_videos'[c] \ cached_videos[c] :
                \A i \in DOMAIN cache_latency_scores :
                    AdmissiblePair(i) => cache_latency_scores[i][3] <= RankedBenefit(c, v)
       /\ (strategy = "main" /\ ContentionScenario /\ pc' = "done") =>
            cached_videos'[0] = {0}]_vars

\* C5: the set of videos stored in any cache never shrinks: every step
\* leaves stored[c] a subset of the new stored[c].
NoEviction == [][\A c \in CacheIds : cached_videos[c] \subseteq cached_videos'[c]]_vars

\* A second video has been inserted into a cache that already stored one.
SecondVideoStored == \E c \in CacheIds : Cardinality(cached_videos[c]) >= 2

\* C6: sum_latency_saved is never negative, and an insertion step never
\* decreases it.
SavedNeverDecreases ==
    [][Running =>
         /\ sum_latency(cached_videos) >= 0
         /\ insertions' = insertions + 1 =>
                sum_latency(cached_videos') >= sum_latency(cached_videos)]_vars

\* The link latency of the lowest-latency reachable cache that stores the
\* video of request i.
BestLatency(i) == Min({Connections(i)[j][2] : j \in Hits(i, cached_videos)})

ExactSaved ==
    SumOver(Served(cached_videos),
            [i \in Served(cached_videos) |->
                request_descriptions[i].amount
                  * (endpoints[request_descriptions[i].endpoint_id].latency - BestLatency(i))])

\* floor(num / den * 1000) for den > 0, by long division.
Floor1000(num, den) ==
    LET r1 == ((num % den) * 10) % den
        r2 == (r1 * 10) % den
    IN (num \div den) * 1000 + (((num % den) * 10) \div den) * 100
         + ((r1 * 10) \div den) * 10 + ((r2 * 10) \div den)

\* The trivial-fit scenario: size 50, capacity 100, datacenter latency 1000,
\* link latency 100, one request of amount 10 for video 0.
TrivialFitScenario ==
    /\ raw = <<<<0, 0, 10>>>>
    /\ cache_size = 100
    /\ videos[0] = 50
    /\ endpoints[0] = [latency |-> 1000, cache_connections |-> <<<<0, 100>>>>]

\* C7: score() returns sum_latency_saved = the sum over the served demand
\* entries of amount * (datacenter_latency - lowest link latency of a cache
\* storing the video), and the normalized score
\* floor(sum_latency_saved / sum_requests * 1000); the trivial-fit scenario
\* gives 9000 and 900000.
ScoreIsExact ==
    pc = "done" =>
        /\ result[1] = ExactSaved
        /\ sum_requests # 0 => result[2] = Floor1000(ExactSaved, sum_requests)
        /\ TrivialFitScenario => result = <<9000, 900000>>

\* C8: when the total demand is zero, computing the score does not panic
\* and the normalized score is exactly 0.
ZeroDemandScoresZero ==
    sum_requests = 0 =>
        /\ pc = "evaluate" =>
              /\ ~(overflow_checks /\ ScoreOverflows(cached_videos))
              /\ score(cached_videos)[2] = 0
        /\ pc = "done" => result[2] = 0

\* score() has been computed for a demand set whose amounts are all zero,
\* with a video placed.
ZeroDemandScored ==
    /\ pc = "done"
    /\ request_descriptions # <<>>
    /\ sum_requests = 0
    /\ insertions > 0

RawKeys == {LineKey(raw[i]) : i \in DOMAIN raw}

RawSum(key) ==
    SumOver({i \in DOMAIN raw : LineKey(raw[i]) = key}, [i \in DOMAIN raw |-> raw[i][3]])

EntryKey(i) == <<request_descriptions[i].video_id, request_descriptions[i].endpoint_id>>

\* C9: whatever the order of the raw lines, the Demand Model holds each
\* (video_id, endpoint_id) key of the lines in exactly one entry, whose
\* amount is the sum of the amounts of all the lines with that key.
AggregationIsSum ==
    Running =>
        /\ \A key \in RawKeys :
              Cardinality({i \in DOMAIN request_descriptions : EntryKey(i) = key}) = 1
        /\ \A i \in DOMAIN request_descriptions :
              EntryKey(i) \in RawKeys /\ request_descriptions[i].amount = RawSum(EntryKey(i))

\* The capacity a cache has left: capacity - usage, as numbers.
Left(c) == cache_size - cache_usage[c]

Terminated == pc \in {"evaluate", "done"}

EntryVideo(i) == request_descriptions[i].video_id

EntryEndpoint(i) == request_descriptions[i].endpoint_id

\* C11: the basic strategy terminates only (and so never earlier than) in a
\* state where, for every demand entry (v, e), some cache reachable from e
\* stores v or every cache reachable from e has less capacity left than
\* size[v].
BasicEndsWithoutCandidate ==
    (strategy = "greedy" /\ Terminated) =>
        \A i \in DOMAIN request_descriptions :
            \/ is_caching(EntryEndpoint(i), EntryVideo(i))
            \/ \A j \in DOMAIN Connections(i) :
                  Left(Connections(i)[j][1]) < videos[EntryVideo(i)]

\* C12: the advanced strategy ends only in a maximal state: for every demand
\* entry (v, e) with size[v] <= capacity and every cache c reachable from e,
\* v is stored in c or c has less capacity left than size[v].
AdvancedEndsMaximal ==
    (strategy = "main" /\ Terminated) =>
        \A i \in DOMAIN request_descriptions :
            videos[EntryVideo(i)] <= cache_size =>
                \A j \in DOMAIN Connections(i) :
                    \/ EntryVideo(i) \in cached_videos[Connections(i)[j][1]]
                    \/ Left(Connections(i)[j][1]) < videos[EntryVideo(i)]

\* The candidates of the basic strategy: <<entry, connection>> pairs whose
\* entry is not served and whose cache has at least size[v] left.
Candidates ==
    {p \in {<<i, j>> : i \in DOMAIN request_descriptions, j \in 1 .. NumCaches} :
        /\ p[2] \in DOMAIN Connections(p[1])
        /\ ~is_caching(EntryEndpoint(p[1]), EntryVideo(p[1]))
        /\ Left(Connections(p[1])[p[2]][1]) >= videos[EntryVideo(p[1])]}

\* (datacenter_latency - link_latency) * amount, as numbers.
RawBenefit(p) ==
    (endpoints[EntryEndpoint(p[1])].latency - Connections(p[1])[p[2]][2])
        * request_descriptions[p[1]].amount

\* C13: every insertion of the basic strategy is of a candidate (an unserved
\* entry's video and a reachable cache with at least size[v] left) whose
\* raw-latency benefit is the maximum over all candidates.
BasicInsertsMaxBenefit ==
    [][(pc = "greedy" /\ insertions' = insertions + 1) =>
          \A c \in CacheIds : \A v \in cached_videos'[c] \ cached_videos[c] :
              \E p \in Candidates :
                  /\ Connections(p[1])[p[2]][1] = c
                  /\ EntryVideo(p[1]) = v
                  /\ \A q \in Candidates : RawBenefit(q) <= RawBenefit(p)]_vars

\* The <<entry, connection>> pairs that request video v over a connection
\* to cache c.
Contributors(c, v) ==
    {p \in {<<i, j>> : i \in DOMAIN request_descriptions, j \in 1 .. NumCaches} :
        /\ p[2] \in DOMAIN Connections(p[1])
        /\ Connections(p[1])[p[2]][1] = c
        /\ EntryVideo(p[1]) = v}

\* The sum, over the contributors of (c, v), of
\* ((datacenter_latency - link_latency) * amount) / size[v], as numbers.
ExactTotalBenefit(c, v) ==
    SumOver(Contributors(c, v),
            [p \in Contributors(c, v) |-> RawBenefit(p) \div videos[v]])

Ranked == strategy = "main" /\ pc \in {"place", "evaluate", "done"}

\* C14: the ranked list holds each (cache_id, video_id) key at most once,
\* the total_benefit of a key is the sum over the demand entries for that
\* video whose endpoint is connected to that cache of
\* ((datacenter_latency - link_latency) * amount) / size[v], and the list is
\* in non-increasing order of total_benefit.
RankedListIsAggregate ==
    Ranked =>
        /\ \A i, k \in DOMAIN cache_latency_scores :
              (cache_latency_scores[i][1] = cache_latency_scores[k][1]
                 /\ cache_latency_scores[i][2] = cache_latency_scores[k][2]) => i = k
        /\ \A i \in DOMAIN cache_latency_scores :
              cache_latency_scores[i][3]
                  = ExactTotalBenefit(cache_latency_scores[i][1], cache_latency_scores[i][2])
        /\ \A i, k \in DOMAIN cache_latency_scores :
              i < k => cache_latency_scores[i][3] >= cache_latency_scores[k][3]

\* The position at which the demand input first offers the key (c, v): the
\* first request line for v whose endpoint is connected to c, then the
\* position of c among that endpoint's connections.
FirstSeen(c, v) ==
    Min({i * (NumCaches + 1) + j : <<i, j>> \in
            {p \in (DOMAIN raw) \X (1 .. NumCaches) :
                /\ raw[p[1]][1] = v
                /\ p[2] \in DOMAIN endpoints[raw[p[1]][2]].cache_connections
                /\ endpoints[raw[p[1]][2]].cache_connections[p[2]][1] = c}})

\* C15: the ranked list is a function of the demand input: entries of equal
\* total_benefit stand in first-seen order of their keys, so every run on
\* the same input builds the same list.
RankedListIsFirstSeen ==
    Ranked =>
        \A i, k \in DOMAIN cache_latency_scores :
            (i < k /\ cache_latency_scores[i][3] = cache_latency_scores[k][3]) =>
                FirstSeen(cache_latency_scores[i][1], cache_latency_scores[i][2])
                    < FirstSeen(cache_latency_scores[k][1], cache_latency_scores[k][2])

\* C16: the Allocation State is written only by the loop's insertion, at an
\* iteration boundary: a step that changes it is an insertion made when no
\* reader of a scan is running, and every reader of the running scan
\* observed the Allocation State as it is.
StableScan ==
    [][/\ observed' \subseteq {<<cached_videos', cache_usage'>>}
       /\ (cached_videos' # cached_videos \/ cache_usage' # cache_usage) =>
             /\ pc \in {"greedy", "place"}
             /\ insertions' = insertions + 1
             /\ scanned' = 0
             /\ observed' = {}]_vars

\* A scan that follows an insertion has had two of its items evaluated.
ScanAfterInsertion ==
    /\ pc \in {"greedy", "place"}
    /\ insertions >= 1
    /\ scanned >= 2
    /\ observed # {}

\* C17: in the basic strategy an insertion strictly increases the number of
\* served demand entries, no step turns a served entry into an unserved
\* one, and so the insertions never outnumber the demand entries.
BasicInsertionServes ==
    [][(strategy = "greedy" /\ pc \in {"greedy", "evaluate"}) =>
          /\ Served(cached_videos) \subseteq Served(cached_videos')
          /\ insertions' = insertions + 1 =>
                Cardinality(Served(cached_videos')) > Cardinality(Served(cached_videos))
          /\ insertions' <= Len(request_descriptions)]_vars

\* The basic strategy has ended after one insertion per demand entry.
BasicServedEachEntry ==
    /\ strategy = "greedy"
    /\ Terminated
    /\ insertions >= 2
    /\ insertions = Len(request_descriptions)

\* C18: in every reachable state of either strategy every stored pair
\* (cache c, video v) is backed by demand: some demand entry requests v from
\* an endpoint that has a connection to c.
StoredIsBackedByDemand ==
    \A c \in CacheIds : \A v \in cached_videos[c] : Contributors(c, v) # {}

\* A run has ended with a video stored while some (cache, video) pair that
\* no demand entry backs was left out.
StoredOnlyWhereBacked ==
    /\ Terminated
    /\ insertions >= 1
    /\ \E c \in CacheIds, v \in VideoIds : Contributors(c, v) = {}

\* C19: with latencies, sizes and aggregated amounts that fit the word, the
\* unsigned arithmetic of the benefits and savings never leaves the word:
\* the product (datacenter_latency - link_latency) * amount in greedy_next,
\* in the scorer and in score(), and the running sum per (cache, video) key.
BenefitsFitTheWord ==
    /\ pc = "greedy" =>
          \A i \in GreedyCandidates :
              ~SavedOverflows(EntryEndpoint(i), GreedyConnection(i)[2],
                              request_descriptions[i].amount)
    /\ pc = "score" => ~ScoringOverflows
    /\ pc = "evaluate" => ~ScoreOverflows(cached_videos)
=============================================================================
